---- MODULE Spec2Model ----
(***************************************************************************)
(* GELSumm: the training loop of main.py (train / test / serialisation)    *)
(* and the refinement sweep of run_node_classification.py.                 *)
(*                                                                         *)
(* Two programs, two specifications:                                       *)
(*   Spec    - main.py, from the constructed model to the pickled file     *)
(*   LiveSpec- Spec with weak fairness of its steps (the script runs on)   *)
(*   SpecNC  - run_node_classification.py, from the command line to the    *)
(*             end of the sweep                                            *)
(***************************************************************************)
EXTENDS Integers, Sequences, FiniteSets, TLC

\* ------------------------------------------------------------------ bounds
MaxEpochs == 3
MaxParam == 2
MaxAcc == 2
MaxPower == 3

\* Abstract parameter vectors of the model (contents of its tensors).
ParamVals == 0..MaxParam
\* Validation accuracies; 0 stands for 0.0, the initial max_val_acc.
AccVals == 0..MaxAcc

None == "None"
\* A reference that is None, or one that holds x.
NoValue == <<>>
Some(x) == <<x>>

\* ---------------------------------------------------------------- main.py
VARIABLES
    args_epochs,   \* args.epochs
    weights,       \* contents of the storage of model.parameters()
    training,      \* model.training
    grad,          \* the parameters' .grad: "none", "computed" or "clipped"
    epoch,         \* loop variable of train
    max_val_acc,   \* train's local
    best_params,   \* train's local: None or the dict state_dict() returned
    pc,            \* position in main.py
    \* history of the run, read by the properties only
    nUpdates,      \* optimizer.step() calls that updated the parameters
    nTrain,        \* training passes performed (lines 114-125)
    nEval,         \* evaluation passes performed (lines 127-136)
    nFinalize,     \* executions of line 155
    snapWeights,   \* weights as they were at the evaluation pass that recorded best_params
    fwd,           \* forward passes: what the output is used for, and the mode
    testWeights,   \* weights test computed its result with
    dumped         \* weights serialised by pickle.dump

\* ------------------------------------------- run_node_classification.py
VARIABLES
    dataset,       \* args.dataset
    method,        \* args.method (None when omitted)
    embed_path,    \* args.embed_path
    power,         \* args.power
    embeds,        \* the module-level embeds of __main__
    p,             \* loop variable of the sweep
    nc_pc,         \* position in run_node_classification.py
    tnc_power,     \* test_node_classification's parameter power
    tnc_embeds,    \* test_node_classification's local embeds
    tnc_filter,    \* test_node_classification's local filter
    tnc_R,         \* test_node_classification's local R
    tnc_i,         \* iterations of the filter loop done in this call
    \* history of the run, read by the properties only
    sweep,         \* power values passed to test_node_classification, in order
    classified,    \* <<power, embedding the classifier was fitted on>> of every call
    reads,         \* files test_node_classification has read
    embeds0        \* embeds as the if-chain of __main__ left it

trainVars == <<args_epochs, weights, training, grad, epoch, max_val_acc, best_params, pc,
               nUpdates, nTrain, nEval, nFinalize, snapWeights, fwd, testWeights, dumped>>
ncVars == <<dataset, method, embed_path, power, embeds, p, nc_pc, tnc_power, tnc_embeds,
            tnc_filter, tnc_R, tnc_i, sweep, classified, reads, embeds0>>
vars == <<trainVars, ncVars>>

\* range(n): the loop takes another iteration with loop variable i.
RangeHasNextOffByOne(i, n) == i + 1 < n
RangeHasNext(i, n) == i < n

\* ======================================================== main.py: train
\* model.train() / model.eval(): the new value of model.training.
ModelTrain(t) == TRUE
ModelEvalForgotten(t) == t
ModelEval(t) == FALSE

\* optimizer.step(): the parameter contents it may leave, in place. Adam moves
\* every parameter that has a gradient; where it moves it depends on the data.
OptimizerStep(w, g) == IF g = "none" THEN {w} ELSE ParamVals

\* model.state_dict(): the tensors of the dict are the parameters detached, and
\* share their storage; nothing is copied.
StateDict == [storage |-> "model.parameters"]

\* What a state dict holds now: the live contents of the storage it shares.
Contents(sd, w) == w

\* model.load_state_dict(sd): copies sd's tensors into the parameters.
LoadStateDict(sd, w) == Contents(sd, w)

IdleNC ==
    /\ dataset = None /\ method = None /\ embed_path = "" /\ power = 0
    /\ embeds = NoValue /\ p = 0 /\ nc_pc = "idle"
    /\ tnc_power = 0 /\ tnc_embeds = NoValue /\ tnc_filter = NoValue /\ tnc_R = NoValue
    /\ tnc_i = 0
    /\ sweep = <<>> /\ classified = <<>> /\ reads = {} /\ embeds0 = NoValue

Init ==
    /\ args_epochs \in 0..MaxEpochs
    /\ weights \in ParamVals
    /\ training = TRUE
    /\ grad = "none"
    /\ epoch = 0
    /\ max_val_acc = 0
    /\ best_params = NoValue
    /\ pc = IF RangeHasNext(0, args_epochs) THEN "train_step" ELSE "finalize"
    /\ nUpdates = 0 /\ nTrain = 0 /\ nEval = 0 /\ nFinalize = 0
    /\ snapWeights = NoValue
    /\ fwd = {}
    /\ testWeights = NoValue
    /\ dumped = NoValue
    /\ IdleNC

\* Lines 113-125: model.train(), forward, loss, backward, optimizer.step(),
\* clip_grad_norm_ (which rescales the gradients after the step used them).
TrainStep ==
    /\ pc = "train_step"
    /\ training' = ModelTrain(training)
    /\ fwd' = fwd \cup {[use |-> "grad", training |-> training']}
    /\ weights' \in OptimizerStep(weights, "computed")
    /\ grad' = "clipped"
    /\ nUpdates' = nUpdates + 1
    /\ nTrain' = nTrain + 1
    /\ pc' = "eval_step"
    /\ UNCHANGED <<args_epochs, epoch, max_val_acc, best_params, nEval, nFinalize,
                   snapWeights, testWeights, dumped>>
    /\ UNCHANGED ncVars

\* Lines 127-136: model.eval(), forward, acc_val, and the snapshot policy.
EvalStep ==
    /\ pc = "eval_step"
    /\ training' = ModelEval(training)
    /\ fwd' = fwd \cup {[use |-> "val", training |-> training']}
    /\ \E acc_val \in AccVals :
         IF acc_val > max_val_acc
         THEN /\ max_val_acc' = acc_val
              /\ best_params' = Some(StateDict)
              /\ snapWeights' = Some(weights)
         ELSE UNCHANGED <<max_val_acc, best_params, snapWeights>>
    /\ nEval' = nEval + 1
    /\ pc' = "epoch_end"
    /\ UNCHANGED <<args_epochs, weights, grad, epoch, nUpdates, nTrain, nFinalize,
                   testWeights, dumped>>
    /\ UNCHANGED ncVars

\* Lines 137-154: the log message, then optimizer.step() once more, with the
\* gradients of this epoch as clip_grad_norm_ left them; then the loop test.
EpochEnd ==
    /\ pc = "epoch_end"
    /\ weights' \in OptimizerStep(weights, grad)
    /\ nUpdates' = nUpdates + 1
    /\ epoch' = epoch + 1
    /\ pc' = IF RangeHasNext(epoch + 1, args_epochs) THEN "train_step" ELSE "finalize"
    /\ UNCHANGED <<args_epochs, training, grad, max_val_acc, best_params, nTrain, nEval,
                   nFinalize, snapWeights, fwd, testWeights, dumped>>
    /\ UNCHANGED ncVars

\* Line 155: model.load_state_dict(best_params). With best_params None the call
\* raises (None is no mapping) and the exception leaves train and the script.
Finalize ==
    /\ pc = "finalize"
    /\ nFinalize' = nFinalize + 1
    /\ IF best_params = NoValue
       THEN /\ pc' = "raised"
            /\ UNCHANGED weights
       ELSE /\ weights' = LoadStateDict(best_params[1], weights)
            /\ pc' = "test"
    /\ UNCHANGED <<args_epochs, training, grad, epoch, max_val_acc, best_params, nUpdates,
                   nTrain, nEval, snapWeights, fwd, testWeights, dumped>>
    /\ UNCHANGED ncVars

\* Lines 158-165: test(model).
Test ==
    /\ pc = "test"
    /\ training' = ModelEval(training)
    /\ fwd' = fwd \cup {[use |-> "test", training |-> training']}
    /\ testWeights' = Some(weights)
    /\ pc' = "dump"
    /\ UNCHANGED <<args_epochs, weights, grad, epoch, max_val_acc, best_params, nUpdates,
                   nTrain, nEval, nFinalize, snapWeights, dumped>>
    /\ UNCHANGED ncVars

\* Lines 175-178: pickle.dump(model.state_dict(), ...).
Dump ==
    /\ pc = "dump"
    /\ dumped' = Some(Contents(StateDict, weights))
    /\ pc' = "done"
    /\ UNCHANGED <<args_epochs, weights, training, grad, epoch, max_val_acc, best_params,
                   nUpdates, nTrain, nEval, nFinalize, snapWeights, fwd, testWeights>>
    /\ UNCHANGED ncVars

Next ==
    \/ TrainStep
    \/ EvalStep
    \/ EpochEnd
    \/ Finalize
    \/ Test
    \/ Dump

Spec == Init /\ [][Next]_vars

\* The script is one thread that runs until it ends or raises.
LiveSpec == Spec /\ WF_vars(Next)

\* ================================================= properties of main.py
TrainReturned == pc \in {"test", "dump", "done"}
TrainOver == pc \in {"raised", "test", "dump", "done"}

\* C1: when train has returned, the parameters the model holds (the ones test
\* uses and pickle.dump serialises) are the parameters the model had at the
\* evaluation pass of the epoch that set the highest validation accuracy.
C1_FinalParamsAreBestEpochs ==
    TrainReturned =>
        /\ Some(weights) = snapWeights
        /\ (testWeights # NoValue => testWeights = snapWeights)
        /\ (dumped # NoValue => dumped = snapWeights)

\* C2: at every epoch boundary, after k epochs, the parameters have been
\* updated exactly k times (one optimizer update per epoch).
C2_OneUpdatePerEpoch ==
    pc \in {"train_step", "finalize"} => nUpdates = epoch

\* C3: a run in which the validation accuracy never exceeds the initial
\* max_val_acc of 0.0 (epochs = 0 included) does not raise: train returns.
C3_NoSnapshotIsNonFatal ==
    max_val_acc = 0 => pc # "raised"

\* C7: the recorded snapshot keeps the contents the live parameters had at the
\* evaluation pass that recorded it, whatever the optimizer does afterwards.
C7_SnapshotIsRetained ==
    best_params # NoValue => Some(Contents(best_params[1], weights)) = snapWeights

\* C8: train performs its Train-step / Eval-step pairs in strict alternation,
\* exactly args.epochs of them whatever the validation accuracies are, executes
\* Finalize (line 155) exactly once after the last pair, and then is over: it
\* has returned, or load_state_dict has raised out of it.
C8_Shape ==
    /\ nTrain = (IF pc = "eval_step" THEN nEval + 1 ELSE nEval)
    /\ nEval = (IF pc = "epoch_end" THEN epoch + 1 ELSE epoch)
    /\ (pc \in {"train_step", "eval_step", "epoch_end"} => epoch < args_epochs)
    /\ (pc = "finalize" => nTrain = args_epochs /\ nEval = args_epochs /\ nFinalize = 0)
    /\ (TrainOver => nTrain = args_epochs /\ nEval = args_epochs /\ nFinalize = 1)
    /\ (~TrainOver => nFinalize = 0)
C9_ModeDiscipline ==
    /\ \A f \in fwd : f.training = (f.use = "grad")
    /\ (TrainReturned => ~training)
    /\ (pc \in {"dump", "done"} => [use |-> "test", training |-> FALSE] \in fwd)

\* C9 witness: a finished run that made all three kinds of forward pass.
C9_Witness ==
    /\ pc = "done"
    /\ {f.use : f \in fwd} = {"grad", "val", "test"}
    /\ ~training

\* ========================================== run_node_classification.py
Datasets == {"citeseer", "cora"}
\* --method as given on the command line; None when the flag is omitted.
MethodInputs == {"deepwalk", "line", "node2vec", None}
\* --embed_path; '' is the default.
EmbedPathInputs == {"", "emb.npy"}

\* choices=['deepwalk', 'line'] of --method.
Choices == {"deepwalk", "line"}

\* parse_args() on --method: argparse checks a given value against choices and
\* leaves the default None of an omitted flag unchecked.
ArgparseAcceptsAny(m) == TRUE
ArgparseAccepts(m) == m = None \/ m \in Choices

\* A matrix read from a file of a dataset directory.
Load(dir, file) == [dir |-> dir, file |-> file]

\* aug_normalized_adjacency(adj): the filter built from adj.
AugNormalizedAdjacency(adj) == [op |-> "aug_normalized_adjacency", of |-> adj]

\* M @ x: an embedding is its base and the operators applied to it, first first.
MatMul(M, x) == [x EXCEPT !.ops = Append(@, M)]

\* Line 93: embeds = R @ embeds.
Project(R, x) == MatMul(R, x)

\* Line 95: embeds = filter @ embeds.
FilterStepTwice(f, x) == MatMul(f, MatMul(f, x))
FilterStep(f, x) == MatMul(f, x)

\* The embeddings the if-chain of __main__ produces.
Embedding(by, from) == [base |-> [by |-> by, from |-> from], ops |-> <<>>]

IdleTrain ==
    /\ args_epochs = 0 /\ weights = 0 /\ training = TRUE /\ grad = "none" /\ epoch = 0
    /\ max_val_acc = 0 /\ best_params = NoValue /\ pc = "idle"
    /\ nUpdates = 0 /\ nTrain = 0 /\ nEval = 0 /\ nFinalize = 0
    /\ snapWeights = NoValue /\ fwd = {} /\ testWeights = NoValue /\ dumped = NoValue

InitNC ==
    /\ dataset \in Datasets
    /\ method \in MethodInputs
    /\ embed_path \in EmbedPathInputs
    /\ power \in 0..MaxPower
    /\ embeds = NoValue
    /\ p = 0
    /\ nc_pc = "parse_args"
    /\ tnc_power = 0 /\ tnc_embeds = NoValue /\ tnc_filter = NoValue /\ tnc_R = NoValue
    /\ tnc_i = 0
    /\ sweep = <<>> /\ classified = <<>> /\ reads = {} /\ embeds0 = NoValue
    /\ IdleTrain

\* Lines 21-27: parser.parse_args(); a value outside choices ends the script
\* with a usage error.
ParseArgs ==
    /\ nc_pc = "parse_args"
    /\ nc_pc' = IF ArgparseAccepts(method) THEN "main" ELSE "usage_error"
    /\ UNCHANGED <<dataset, method, embed_path, power, embeds, p, tnc_power, tnc_embeds,
                   tnc_filter, tnc_R, tnc_i, sweep, classified, reads, embeds0>>
    /\ UNCHANGED trainVars

\* Lines 114-126: the if-chain that loads or learns the embeddings, then the
\* first test of the sweep loop.
LoadOrLearn ==
    /\ nc_pc = "main"
    /\ IF embed_path # ""
       THEN /\ embeds' = Some(Embedding("np.load", embed_path))
            /\ nc_pc' = IF RangeHasNext(0, power) THEN "sweep_call" ELSE "done"
       ELSE IF method = "deepwalk"
       THEN /\ embeds' = Some(Embedding("learn_embeds_dw", dataset))
            /\ nc_pc' = IF RangeHasNext(0, power) THEN "sweep_call" ELSE "done"
       ELSE IF method = "line"
       THEN /\ embeds' = Some(Embedding("learn_embeds_line", dataset))
            /\ nc_pc' = IF RangeHasNext(0, power) THEN "sweep_call" ELSE "done"
       ELSE /\ nc_pc' = "raised"
            /\ UNCHANGED embeds
    /\ embeds0' = embeds'
    /\ p' = 0
    /\ UNCHANGED <<dataset, method, embed_path, power, tnc_power, tnc_embeds, tnc_filter,
                   tnc_R, tnc_i, sweep, classified, reads>>
    /\ UNCHANGED trainVars

\* Line 127 and lines 87-94: the call test_node_classification(args.dataset,
\* embeds, p), its loads, the projection, the first test of the filter loop.
TncEnter ==
    /\ nc_pc = "sweep_call"
    /\ sweep' = Append(sweep, p)
    /\ tnc_power' = p
    /\ tnc_filter' = Some(AugNormalizedAdjacency(Load("citeseer", "adj.npz")))
    /\ tnc_R' = Some(Load(dataset, "R.npz"))
    /\ reads' = reads \cup {Load("citeseer", "adj.npz"), Load(dataset, "R.npz")}
    /\ tnc_embeds' = Some(Project(tnc_R'[1], embeds[1]))
    /\ tnc_i' = 0
    /\ nc_pc' = IF RangeHasNext(0, p) THEN "tnc_filter" ELSE "tnc_classify"
    /\ UNCHANGED <<dataset, method, embed_path, power, embeds, p, classified, embeds0>>
    /\ UNCHANGED trainVars

\* Lines 94-95: one iteration of the filter loop.
TncFilter ==
    /\ nc_pc = "tnc_filter"
    /\ tnc_embeds' = Some(FilterStep(tnc_filter[1], tnc_embeds[1]))
    /\ tnc_i' = tnc_i + 1
    /\ nc_pc' = IF RangeHasNext(tnc_i + 1, tnc_power) THEN "tnc_filter" ELSE "tnc_classify"
    /\ UNCHANGED <<dataset, method, embed_path, power, embeds, p, tnc_power, tnc_filter,
                   tnc_R, sweep, classified, reads, embeds0>>
    /\ UNCHANGED trainVars

\* Lines 99-111 and 126-128: the split and the labels are loaded, the
\* classifier is fitted and scored on the local embeds, the call returns and
\* the sweep loop is tested again.
TncClassify ==
    /\ nc_pc = "tnc_classify"
    /\ reads' = reads \cup {Load("citeseer", "indices.npz"), Load("citeseer", "labels.npy")}
    /\ classified' = Append(classified, [power |-> tnc_power, on |-> tnc_embeds[1]])
    /\ p' = p + 1
    /\ nc_pc' = IF RangeHasNext(p + 1, power) THEN "sweep_call" ELSE "done"
    /\ UNCHANGED <<dataset, method, embed_path, power, embeds, tnc_power, tnc_embeds,
                   tnc_filter, tnc_R, tnc_i, sweep, embeds0>>
    /\ UNCHANGED trainVars

NextNC ==
    \/ ParseArgs
    \/ LoadOrLearn
    \/ TncEnter
    \/ TncFilter
    \/ TncClassify

SpecNC == InitNC /\ [][NextNC]_vars

\* =========================== properties of run_node_classification.py
\* The sequence 0, 1, ..., n.
UpTo(n) == [k \in 1..(n + 1) |-> k - 1]

\* C4: when the sweep has ended, the power values passed to
\* test_node_classification are 0, 1, ..., max_power (= --power), in
\* increasing order, each exactly once.
C4_SweepCoversClosedRange ==
    nc_pc = "done" => sweep = UpTo(power)

\* R @ x with the filter f applied n times on top.
RECURSIVE Filtered(_, _, _)
Filtered(f, x, n) == IF n = 0 THEN x ELSE MatMul(f, Filtered(f, x, n - 1))

\* The embedding a call with power n is to classify on, given the operators the
\* call loaded: filter^n (R @ embeds0).
Refined(n) == Filtered(tnc_filter[1], MatMul(tnc_R[1], embeds0[1]), n)

\* C5: every call test_node_classification(dataset, embeds, n) fits the
\* classifier on the filter applied exactly n times to R @ embeds - for n = 0 on
\* R @ embeds itself - and the caller's embeds stays what the if-chain of
\* __main__ made it, so every call of the sweep starts from the original.
C5_RefinementIsFilterPowerOfProjection ==
    /\ embeds = embeds0
    /\ (nc_pc = "tnc_classify" => tnc_embeds[1] = Refined(tnc_power))
    /\ \A k \in 1..Len(classified) :
         /\ classified[k].on = Refined(classified[k].power)
         /\ Len(classified[k].on.ops) = classified[k].power + 1
         /\ classified[k].on.base = embeds0[1].base
         /\ (classified[k].power = 0 => classified[k].on = MatMul(tnc_R[1], embeds[1]))

\* C5 witness: a sweep that classified at power 0 and, later, at power 2.
C5_Witness ==
    /\ Len(classified) >= 3
    /\ classified[1].power = 0
    /\ classified[3].power = 2
    /\ Len(classified[3].on.ops) = 3

ConfigError == nc_pc \in {"usage_error", "raised"}
NothingRun == sweep = <<>> /\ classified = <<>> /\ reads = {}
BeforeSweep == nc_pc \in {"parse_args", "main", "usage_error", "raised"}

\* C6 as stated: an invocation whose --method is not 'deepwalk' or 'line'
\* (omitted included) never gets past the configuration error: nothing is
\* refined or classified and the script does not complete, whatever
\* --embed_path is.
C6_UnsupportedMethodAlwaysFatal ==
    method \notin Choices => (NothingRun /\ BeforeSweep)

\* C6 as amended: an unsupported --method name is fatal before any refinement
\* or classification whatever --embed_path is, and an omitted --method is fatal
\* before any refinement or classification when --embed_path is empty; with
\* --method omitted and --embed_path given no configuration error is raised
\* and the sweep runs on the loaded embeddings.
C6_UnsupportedMethodFatalUnlessPretrained ==
    /\ (method \notin Choices /\ (method # None \/ embed_path = ""))
          => (NothingRun /\ BeforeSweep /\ embeds = NoValue)
    /\ (method \notin Choices /\ method # None) => nc_pc \in {"parse_args", "usage_error"}
    /\ (method = None /\ embed_path # "")
          => /\ ~ConfigError
             /\ (nc_pc = "done" => Len(classified) = power)
             /\ (nc_pc \notin {"parse_args", "main"}
                   => embeds = Some(Embedding("np.load", embed_path)))

\* C6 witness: --method omitted and no --embed_path: NotImplementedError.
C6_Witness ==
    /\ method = None /\ embed_path = "" /\ nc_pc = "raised" /\ NothingRun

\* C10: every file test_node_classification reads is in the directory of the
\* dataset named by --dataset.
C10_ArtifactsOfOneDataset ==
    \A r \in reads : r.dir = dataset

====
